---- MODULE Spec2Model ----
(***************************************************************************)
(* MLB microservices: the gateway (gateway.js) in front of the player      *)
(* directory (services/player.js) and the team directory                   *)
(* (services/team.js).                                                     *)
(*                                                                         *)
(* Every async handler is cut at its awaits: the part up to the first      *)
(* fetch is one action, each continuation after an awaited fetch/json is   *)
(* one action, and the rejection of an awaited promise, which ends the     *)
(* handler, is one action. Directory handlers have no await and are one    *)
(* action each.                                                            *)
(***************************************************************************)
EXTENDS Integers, Sequences, FiniteSets, TLC

(* ------------------------------ bounds -------------------------------- *)

\* Number of client requests the gateway handles concurrently.
NumReqs == 2

\* Client ids range over 0..MaxId: id 0 is in neither directory, ids 1 and 2
\* are in both.
MaxId == 2

\* Number of concurrent roster requests against an unconstrained upstream.
NumUpReqs == 1

Reqs == 1..NumReqs
UpReqs == 1..NumUpReqs
Ids == 0..MaxId

(* --------------------------- JavaScript values ------------------------ *)

\* Text is a sequence of one-character strings.
Digit == <<"0", "1", "2", "3", "4", "5", "6", "7", "8", "9">>

JsNum(n) == [k |-> "num", n |-> n, s |-> <<>>]
JsStr(s) == [k |-> "str", n |-> 0, s |-> s]
JsBool(b) == [k |-> "bool", n |-> IF b THEN 1 ELSE 0, s |-> <<>>]
JsNull == [k |-> "null", n |-> 0, s |-> <<>>]
JsUndef == [k |-> "undef", n |-> 0, s |-> <<>>]
JsNaN == [k |-> "nan", n |-> 0, s |-> <<>>]

RECURSIVE NatChars(_)
NatChars(n) ==
  IF n < 10 THEN <<Digit[n + 1]>>
  ELSE NatChars(n \div 10) \o <<Digit[(n % 10) + 1]>>

\* Number -> decimal text (template literal `${n}` and String(n)).
NumberToString(n) == IF n < 0 THEN <<"-">> \o NatChars(-n) ELSE NatChars(n)

\* String(v)
String(v) ==
  CASE v.k = "num" -> NumberToString(v.n)
    [] v.k = "str" -> v.s
    [] v.k = "bool" -> IF v.n = 1 THEN <<"t", "r", "u", "e">>
                       ELSE <<"f", "a", "l", "s", "e">>
    [] v.k = "null" -> <<"n", "u", "l", "l">>
    [] v.k = "nan" -> <<"N", "a", "N">>
    [] OTHER -> <<"u", "n", "d", "e", "f", "i", "n", "e", "d">>

\* ToBoolean(v) for a primitive.
Truthy(v) ==
  CASE v.k = "num" -> v.n # 0
    [] v.k = "str" -> Len(v.s) > 0
    [] v.k = "bool" -> v.n = 1
    [] OTHER -> FALSE

IsDigit(c) == \E i \in 1..10 : Digit[i] = c
DigitValue(c) == (CHOOSE i \in 1..10 : Digit[i] = c) - 1

\* Length of the longest prefix of s made of digits.
RECURSIVE DigitPrefixLen(_)
DigitPrefixLen(s) ==
  IF s = <<>> \/ ~IsDigit(Head(s)) THEN 0 ELSE 1 + DigitPrefixLen(Tail(s))

RECURSIVE DigitsValue(_, _)
DigitsValue(s, acc) ==
  IF s = <<>> THEN acc ELSE DigitsValue(Tail(s), 10 * acc + DigitValue(Head(s)))

\* parseInt(v): String(v), an optional sign, then the leading digits; NaN
\* when there is no digit.
ParseInt(v) ==
  LET t == String(v)
      neg == t # <<>> /\ Head(t) = "-"
      u == IF neg THEN Tail(t) ELSE t
      len == DigitPrefixLen(u)
      val == DigitsValue(SubSeq(u, 1, len), 0)
  IN IF len = 0 THEN JsNaN ELSE JsNum(IF neg THEN -val ELSE val)

\* a === b on primitives (NaN equals nothing).
StrictEquals(a, b) == a.k # "nan" /\ b.k # "nan" /\ a = b

(* ------------------------------ payloads ------------------------------ *)

\* A parsed JSON payload: null, a primitive, an object (a function from
\* field names to values) or an array.
PNull == [k |-> "null"]
PPrim(v) == [k |-> "prim", v |-> v]
PObj(o) == [k |-> "obj", o |-> o]
PArr(a) == [k |-> "arr", a |-> a]

\* o.f on an object: undefined when the field is absent.
Field(o, f) == IF f \in DOMAIN o THEN o[f] ELSE JsUndef

\* p.error on a non-null payload.
ErrorOf(p) == IF p.k = "obj" THEN Field(p.o, "error") ELSE JsUndef

\* ToBoolean(p) for a payload.
PayloadTruthy(p) ==
  CASE p.k = "null" -> FALSE
    [] p.k = "prim" -> Truthy(p.v)
    [] OTHER -> TRUE

MsgTeamNotFound ==
  <<"T", "e", "a", "m", " ", "n", "o", "t", " ", "f", "o", "u", "n", "d">>
MsgPlayerNotFound ==
  <<"P", "l", "a", "y", "e", "r", " ", "n", "o", "t", " ", "f", "o", "u", "n", "d">>

ErrorBody(msg) == PObj([error |-> JsStr(msg)])

(* --------------------------- directory data --------------------------- *)

SeedPlayers == <<
  [id |-> JsNum(1), teamId |-> JsNum(1), name |-> "Shohei Ohtani", position |-> "DH/P"],
  [id |-> JsNum(2), teamId |-> JsNum(1), name |-> "Mookie Betts", position |-> "2B"],
  [id |-> JsNum(3), teamId |-> JsNum(2), name |-> "Aaron Judge", position |-> "RF"] >>

SeedTeams == <<
  [id |-> JsNum(1), name |-> "Los Angeles Dodgers", division |-> "NL West"],
  [id |-> JsNum(2), name |-> "New York Yankees", division |-> "AL East"] >>

\* The content of the player store is data. Besides the seed list the model
\* starts from the seed list without its last record, where team 2 exists
\* and has no player.
PlayerStores == {SeedPlayers, SubSeq(SeedPlayers, 1, 2)}

(* -------------------------------- state ------------------------------- *)

VARIABLES
  players,   \* services/player.js: the players array
  teams,     \* services/team.js: the teams array
  pc,        \* per request: where its gateway handler stands
  route,     \* per request: the gateway route it came in on
  id,        \* per request: request.params.id
  tcall,     \* per request: its outbound call to the team directory
  pcall,     \* per request: its outbound call to the player directory
  tcount,    \* per request: fetches issued to the team directory
  pcount,    \* per request: fetches issued to the player directory
  team,      \* per request: the roster handler's local `team`
  resp       \* per request: what the client gets

vars == <<players, teams, pc, route, id, tcall, pcall, tcount, pcount, team, resp>>

NoCall == [state |-> "none", path |-> <<>>, status |-> 0, payload |-> PNull]
NoResp == [kind |-> "none", status |-> 0, body |-> PNull]

Init ==
  /\ players \in PlayerStores
  /\ teams = SeedTeams
  /\ pc = [r \in Reqs |-> "idle"]
  /\ route = [r \in Reqs |-> "none"]
  /\ id = [r \in Reqs |-> JsUndef]
  /\ tcall = [r \in Reqs |-> NoCall]
  /\ pcall = [r \in Reqs |-> NoCall]
  /\ tcount = [r \in Reqs |-> 0]
  /\ pcount = [r \in Reqs |-> 0]
  /\ team = [r \in Reqs |-> PNull]
  /\ resp = [r \in Reqs |-> NoResp]

(* --------------------- services/player.js, team.js -------------------- *)

\* Route params of GET /:id: the path segment, coerced to an integer by the
\* route's params schema.
ParamInteger(path) == ParseInt(JsStr(path))

\* FindById with the id used as an array index (list[id]) instead of a
\* search by the id field.
FindById_ByIndex(list, idParam) ==
  LET n == ParseInt(idParam).n
  IN IF n + 1 \in 1..Len(list) THEN n + 1 ELSE 0

\* list.find((x) => x.id === parseInt(id)): the index of the first match,
\* 0 when there is none.
FindById(list, idParam) ==
  LET hits == {i \in 1..Len(list) : StrictEquals(list[i].id, ParseInt(idParam))}
  IN IF hits = {} THEN 0 ELSE CHOOSE i \in hits : \A j \in hits : i <= j

Replied(call, status, payload) ==
  [call EXCEPT !.state = "replied", !.status = status, !.payload = payload]

\* player.js GET /:id
PlayerGetById(idParam) ==
  LET i == FindById(players, idParam)
  IN IF i = 0 THEN [status |-> 404, payload |-> ErrorBody(MsgPlayerNotFound)]
     ELSE [status |-> 200, payload |-> PObj(players[i])]

\* team.js GET /:id
TeamGetById(idParam) ==
  LET i == FindById(teams, idParam)
  IN IF i = 0 THEN [status |-> 404, payload |-> ErrorBody(MsgTeamNotFound)]
     ELSE [status |-> 200, payload |-> PObj(teams[i])]

\* player.js GET /
PlayerDirList(r) ==
  /\ pcall[r].state = "pending"
  /\ pcall[r].path = <<>>
  /\ pcall' = [pcall EXCEPT ![r] = Replied(@, 200, PArr(players))]
  /\ UNCHANGED <<players, teams, pc, route, id, tcall, tcount, pcount, team, resp>>

\* player.js GET /:id
PlayerDirGetById(r) ==
  /\ pcall[r].state = "pending"
  /\ pcall[r].path # <<>>
  /\ LET rep == PlayerGetById(ParamInteger(pcall[r].path))
     IN pcall' = [pcall EXCEPT ![r] = Replied(@, rep.status, rep.payload)]
  /\ UNCHANGED <<players, teams, pc, route, id, tcall, tcount, pcount, team, resp>>

\* team.js GET /
TeamDirList(r) ==
  /\ tcall[r].state = "pending"
  /\ tcall[r].path = <<>>
  /\ tcall' = [tcall EXCEPT ![r] = Replied(@, 200, PArr(teams))]
  /\ UNCHANGED <<players, teams, pc, route, id, pcall, tcount, pcount, team, resp>>

\* team.js GET /:id
TeamDirGetById(r) ==
  /\ tcall[r].state = "pending"
  /\ tcall[r].path # <<>>
  /\ LET rep == TeamGetById(ParamInteger(tcall[r].path))
     IN tcall' = [tcall EXCEPT ![r] = Replied(@, rep.status, rep.payload)]
  /\ UNCHANGED <<players, teams, pc, route, id, pcall, tcount, pcount, team, resp>>

(* ------------------------------ gateway.js ---------------------------- *)

\* fetch(`${url}/${path}`): a call in flight.
Fetch(path) == [state |-> "pending", path |-> path, status |-> 0, payload |-> PNull]

\* A handler's return value, sent with the reply's status code.
Reply(status, body) == [kind |-> "reply", status |-> status, body |-> body]

\* The handler's promise rejected: nothing it computed reaches the client.
Fault == [kind |-> "fault", status |-> 500, body |-> PNull]

\* `return response.json()` of the four proxy handlers.
ProxyResult(call) == Reply(200, call.payload)

\* GET /players
GetPlayers(r) ==
  /\ pc[r] = "idle"
  /\ route' = [route EXCEPT ![r] = "players"]
  /\ pcall' = [pcall EXCEPT ![r] = Fetch(<<>>)]
  /\ pcount' = [pcount EXCEPT ![r] = @ + 1]
  /\ pc' = [pc EXCEPT ![r] = "awaitPlayerProxy"]
  /\ UNCHANGED <<players, teams, id, tcall, tcount, team, resp>>

\* GET /teams
GetTeams(r) ==
  /\ pc[r] = "idle"
  /\ route' = [route EXCEPT ![r] = "teams"]
  /\ tcall' = [tcall EXCEPT ![r] = Fetch(<<>>)]
  /\ tcount' = [tcount EXCEPT ![r] = @ + 1]
  /\ pc' = [pc EXCEPT ![r] = "awaitTeamProxy"]
  /\ UNCHANGED <<players, teams, id, pcall, pcount, team, resp>>

\* GET /players/:id
GetPlayerById(r, i) ==
  /\ pc[r] = "idle"
  /\ route' = [route EXCEPT ![r] = "playerById"]
  /\ id' = [id EXCEPT ![r] = i]
  /\ pcall' = [pcall EXCEPT ![r] = Fetch(String(i))]
  /\ pcount' = [pcount EXCEPT ![r] = @ + 1]
  /\ pc' = [pc EXCEPT ![r] = "awaitPlayerProxy"]
  /\ UNCHANGED <<players, teams, tcall, tcount, team, resp>>

\* GET /teams/:id
GetTeamById(r, i) ==
  /\ pc[r] = "idle"
  /\ route' = [route EXCEPT ![r] = "teamById"]
  /\ id' = [id EXCEPT ![r] = i]
  /\ tcall' = [tcall EXCEPT ![r] = Fetch(String(i))]
  /\ tcount' = [tcount EXCEPT ![r] = @ + 1]
  /\ pc' = [pc EXCEPT ![r] = "awaitTeamProxy"]
  /\ UNCHANGED <<players, teams, pcall, pcount, team, resp>>

\* GET /players and GET /players/:id after the await.
PlayerProxyReturn(r) ==
  /\ pc[r] = "awaitPlayerProxy"
  /\ pcall[r].state = "replied"
  /\ resp' = [resp EXCEPT ![r] = ProxyResult(pcall[r])]
  /\ pc' = [pc EXCEPT ![r] = "done"]
  /\ UNCHANGED <<players, teams, route, id, tcall, pcall, tcount, pcount, team>>

\* GET /teams and GET /teams/:id after the await.
TeamProxyReturn(r) ==
  /\ pc[r] = "awaitTeamProxy"
  /\ tcall[r].state = "replied"
  /\ resp' = [resp EXCEPT ![r] = ProxyResult(tcall[r])]
  /\ pc' = [pc EXCEPT ![r] = "done"]
  /\ UNCHANGED <<players, teams, route, id, tcall, pcall, tcount, pcount, team>>

\* GetRoster issuing both fetches at once (Promise.all).
GetRoster_Parallel(r, teamId) ==
  /\ pc[r] = "idle"
  /\ route' = [route EXCEPT ![r] = "roster"]
  /\ id' = [id EXCEPT ![r] = teamId]
  /\ tcall' = [tcall EXCEPT ![r] = Fetch(String(teamId))]
  /\ pcall' = [pcall EXCEPT ![r] = Fetch(<<>>)]
  /\ tcount' = [tcount EXCEPT ![r] = @ + 1]
  /\ pcount' = [pcount EXCEPT ![r] = @ + 1]
  /\ pc' = [pc EXCEPT ![r] = "awaitTeam"]
  /\ UNCHANGED <<players, teams, team, resp>>

\* GET /teams/:id/roster up to the first await.
GetRoster(r, teamId) ==
  /\ pc[r] = "idle"
  /\ route' = [route EXCEPT ![r] = "roster"]
  /\ id' = [id EXCEPT ![r] = teamId]
  /\ tcall' = [tcall EXCEPT ![r] = Fetch(String(teamId))]
  /\ tcount' = [tcount EXCEPT ![r] = @ + 1]
  /\ pc' = [pc EXCEPT ![r] = "awaitTeam"]
  /\ UNCHANGED <<players, teams, pcall, pcount, team, resp>>

\* TeamNotFound judging only `!team`.
TeamNotFound_NullOnly(t) == ~PayloadTruthy(t)

\* TeamNotFound judging the presence of the error field ("error" in team).
TeamNotFound_Presence(t) == t.k = "obj" /\ "error" \in DOMAIN t.o

\* team && team.error
TeamNotFound(t) == PayloadTruthy(t) /\ Truthy(ErrorOf(t))

\* RosterTeamResolved with `team` declared at module level: one variable
\* for all requests.
RosterTeamResolved_SharedTeam(r) ==
  /\ pc[r] = "awaitTeam"
  /\ tcall[r].state = "replied"
  /\ team' = [q \in Reqs |-> tcall[r].payload]
  /\ IF TeamNotFound(tcall[r].payload)
     THEN /\ resp' = [resp EXCEPT ![r] = Reply(404, ErrorBody(MsgTeamNotFound))]
          /\ pc' = [pc EXCEPT ![r] = "done"]
          /\ UNCHANGED <<pcall, pcount>>
     ELSE /\ pcall' = [pcall EXCEPT ![r] = Fetch(<<>>)]
          /\ pcount' = [pcount EXCEPT ![r] = @ + 1]
          /\ pc' = [pc EXCEPT ![r] = "awaitPlayers"]
          /\ UNCHANGED resp
  /\ UNCHANGED <<players, teams, route, id, tcall, tcount>>

\* RosterTeamResolved sending the 404 without returning: the handler goes
\* on to the player fetch and answers again.
RosterTeamResolved_NoReturn(r) ==
  /\ pc[r] = "awaitTeam"
  /\ tcall[r].state = "replied"
  /\ team' = [team EXCEPT ![r] = tcall[r].payload]
  /\ resp' = [resp EXCEPT ![r] =
                IF TeamNotFound(tcall[r].payload)
                THEN Reply(404, ErrorBody(MsgTeamNotFound)) ELSE @]
  /\ pcall' = [pcall EXCEPT ![r] = Fetch(<<>>)]
  /\ pcount' = [pcount EXCEPT ![r] = @ + 1]
  /\ pc' = [pc EXCEPT ![r] = "awaitPlayers"]
  /\ UNCHANGED <<players, teams, route, id, tcall, tcount>>

\* The roster handler from `team = await teamRes.json()` to the second
\* fetch, or to the 404 return.
RosterTeamResolved(r) ==
  /\ pc[r] = "awaitTeam"
  /\ tcall[r].state = "replied"
  /\ team' = [team EXCEPT ![r] = tcall[r].payload]
  /\ IF TeamNotFound(tcall[r].payload)
     THEN /\ resp' = [resp EXCEPT ![r] = Reply(404, ErrorBody(MsgTeamNotFound))]
          /\ pc' = [pc EXCEPT ![r] = "done"]
          /\ UNCHANGED <<pcall, pcount>>
     ELSE /\ pcall' = [pcall EXCEPT ![r] = Fetch(<<>>)]
          /\ pcount' = [pcount EXCEPT ![r] = @ + 1]
          /\ pc' = [pc EXCEPT ![r] = "awaitPlayers"]
          /\ UNCHANGED resp
  /\ UNCHANGED <<players, teams, route, id, tcall, tcount>>

\* OnTeam with strict equality on the raw values: player.teamId === teamId.
OnTeam_Strict(player, teamId) == StrictEquals(Field(player, "teamId"), teamId)

\* (player) => String(player.teamId) === String(teamId)
OnTeam(player, teamId) == String(Field(player, "teamId")) = String(teamId)

\* { team, roster }
RosterBody(t, roster) == PObj([team |-> t, roster |-> PArr(roster)])

RECURSIVE Reverse(_)
Reverse(q) == IF q = <<>> THEN <<>> ELSE Reverse(Tail(q)) \o <<Head(q)>>

\* RosterOf returning the matches in reverse listing order.
RosterOf_Reversed(p, teamId) ==
  IF p.k = "arr" THEN Reverse(SelectSeq(p.a, LAMBDA player : OnTeam(player, teamId)))
  ELSE <<>>

\* Array.isArray(players) ? players.filter(...) : []
RosterOf(p, teamId) ==
  IF p.k = "arr" THEN SelectSeq(p.a, LAMBDA player : OnTeam(player, teamId))
  ELSE <<>>

\* RosterPlayersResolved without the Array.isArray guard: players.filter
\* throws on a payload that is no array.
RosterPlayersResolved_NoGuard(r) ==
  /\ pc[r] = "awaitPlayers"
  /\ pcall[r].state = "replied"
  /\ resp' = [resp EXCEPT ![r] =
                IF pcall[r].payload.k = "arr"
                THEN Reply(200, RosterBody(team[r], RosterOf(pcall[r].payload, id[r])))
                ELSE Fault]
  /\ pc' = [pc EXCEPT ![r] = "done"]
  /\ UNCHANGED <<players, teams, route, id, tcall, pcall, tcount, pcount, team>>

\* The roster handler from `players = await playersRes.json()` to its
\* return.
RosterPlayersResolved(r) ==
  /\ pc[r] = "awaitPlayers"
  /\ pcall[r].state = "replied"
  /\ resp' = [resp EXCEPT ![r] =
                Reply(200, RosterBody(team[r], RosterOf(pcall[r].payload, id[r])))]
  /\ pc' = [pc EXCEPT ![r] = "done"]
  /\ UNCHANGED <<players, teams, route, id, tcall, pcall, tcount, pcount, team>>

\* TeamFetchRejects with a retry: the failed fetch is issued again.
TeamFetchRejects_Retry(r) ==
  /\ tcall[r].state = "pending"
  /\ tcall' = [tcall EXCEPT ![r] = Fetch(@.path)]
  /\ tcount' = [tcount EXCEPT ![r] = @ + 1]
  /\ UNCHANGED <<players, teams, pc, route, id, pcall, pcount, team, resp>>

\* The awaited fetch(...) or response.json() of a call to the team
\* directory rejects (directory unreachable, or a body that is not JSON).
\* No handler has a try/catch: the handler's promise rejects with it and
\* the request ends as a fault.
TeamFetchRejects(r) ==
  /\ tcall[r].state = "pending"
  /\ tcall' = [tcall EXCEPT ![r].state = "failed"]
  /\ resp' = [resp EXCEPT ![r] = Fault]
  /\ pc' = [pc EXCEPT ![r] = "done"]
  /\ UNCHANGED <<players, teams, route, id, pcall, tcount, pcount, team>>

\* The same for a call to the player directory.
PlayerFetchRejects(r) ==
  /\ pcall[r].state = "pending"
  /\ pcall' = [pcall EXCEPT ![r].state = "failed"]
  /\ resp' = [resp EXCEPT ![r] = Fault]
  /\ pc' = [pc EXCEPT ![r] = "done"]
  /\ UNCHANGED <<players, teams, route, id, tcall, tcount, pcount, team>>

(* ---------------------------- specification --------------------------- *)

\* request.params.id of the three :id routes: the params schema makes it an
\* integer.
ParamIds == {JsNum(i) : i \in Ids}

\* The gateway in front of the two directories of this repository.
Next ==
  \E r \in Reqs :
    \/ GetPlayers(r)
    \/ GetTeams(r)
    \/ \E i \in ParamIds : GetPlayerById(r, i)
    \/ \E i \in ParamIds : GetTeamById(r, i)
    \/ \E i \in ParamIds : GetRoster(r, i)
    \/ PlayerProxyReturn(r)
    \/ TeamProxyReturn(r)
    \/ RosterTeamResolved(r)
    \/ RosterPlayersResolved(r)
    \/ PlayerDirList(r)
    \/ PlayerDirGetById(r)
    \/ TeamDirList(r)
    \/ TeamDirGetById(r)
    \/ TeamFetchRejects(r)
    \/ PlayerFetchRejects(r)

Spec == Init /\ [][Next]_vars

\* The roster route alone: clients send GET /teams/:id/roster only.
NextRoster ==
  \E r \in Reqs :
    \/ \E i \in ParamIds : GetRoster(r, i)
    \/ RosterTeamResolved(r)
    \/ RosterPlayersResolved(r)
    \/ PlayerDirList(r)
    \/ TeamDirGetById(r)
    \/ TeamFetchRejects(r)
    \/ PlayerFetchRejects(r)

\* Every outbound call is eventually answered by its directory or fails,
\* and the event loop eventually runs a continuation whose awaited promise
\* has settled. Nothing obliges a client to send a request.
Fairness ==
  \A r \in Reqs :
    /\ WF_vars(TeamFetchRejects(r) \/ TeamDirGetById(r))
    /\ WF_vars(PlayerFetchRejects(r) \/ PlayerDirList(r))
    /\ WF_vars(RosterTeamResolved(r))
    /\ WF_vars(RosterPlayersResolved(r))

SpecFair == Init /\ [][NextRoster]_vars /\ Fairness

(* ---------------- the roster handler against any upstream -------------- *)

\* What an awaited fetch + json() of the roster handler can yield when the
\* upstream is not bound to the two directories of this repository: any
\* status with any parsed payload.
UpStatuses == {200, 404}

UpTeamPayloads ==
  { PObj(SeedTeams[1]),
    ErrorBody(MsgTeamNotFound),
    ErrorBody(<<"b", "o", "o", "m">>),
    PObj([id |-> JsNum(1), name |-> "Los Angeles Dodgers", error |-> JsBool(TRUE)]),
    PObj([error |-> JsStr(<<>>)]),
    PObj([error |-> JsNum(0)]),
    PObj([id |-> JsNum(1), error |-> JsNull]),
    PNull }

\* Requested ids, as a number and as a string.
UpTeamIds == {JsNum(1), JsStr(<<"1">>), JsNum(2)}

UpP1 == [id |-> JsNum(1), teamId |-> JsNum(1), name |-> "a", position |-> "P"]
UpP2 == [id |-> JsNum(2), teamId |-> JsStr(<<"1">>), name |-> "b", position |-> "C"]
UpP3 == [id |-> JsNum(3), teamId |-> JsNum(2), name |-> "c", position |-> "RF"]
UpP4 == [id |-> JsNum(4), teamId |-> JsStr(<<"0", "1">>), name |-> "d", position |-> "2B"]
UpP5 == [id |-> JsNum(5), name |-> "e", position |-> "SS"]

UpPlayerReplies ==
  [status : {200},
   payload : { PArr(<<>>), PArr(<<UpP1, UpP2, UpP3>>), PArr(<<UpP3, UpP2, UpP1>>),
               PArr(<<UpP2, UpP4, UpP5>>), PArr(<<UpP3>>), PArr(<<UpP1, UpP1>>) }]
  \cup
  [status : {200, 500},
   payload : { PObj(<<>>), ErrorBody(MsgPlayerNotFound), PNull }]

\* `await fetch(team url)` + `await teamRes.json()` yield (status, payload).
UpstreamTeamReply(r, status, payload) ==
  /\ tcall[r].state = "pending"
  /\ tcall' = [tcall EXCEPT ![r] = Replied(@, status, payload)]
  /\ UNCHANGED <<players, teams, pc, route, id, pcall, tcount, pcount, team, resp>>

\* `await fetch(player url)` + `await playersRes.json()` yield (status, payload).
UpstreamPlayersReply(r, status, payload) ==
  /\ pcall[r].state = "pending"
  /\ pcall' = [pcall EXCEPT ![r] = Replied(@, status, payload)]
  /\ UNCHANGED <<players, teams, pc, route, id, tcall, tcount, pcount, team, resp>>

NextUp ==
  \E r \in UpReqs :
    \/ \E i \in UpTeamIds : GetRoster(r, i)
    \/ \E st \in UpStatuses, p \in UpTeamPayloads : UpstreamTeamReply(r, st, p)
    \/ \E rep \in UpPlayerReplies : UpstreamPlayersReply(r, rep.status, rep.payload)
    \/ RosterTeamResolved(r)
    \/ RosterPlayersResolved(r)

\* The stores play no part here: the seed data is kept.
InitUp == Init /\ players = SeedPlayers

SpecUp == InitUp /\ [][NextUp]_vars

(* ------------------------------- claims ------------------------------- *)

\* Positions of the stored records whose id is the number n.
TeamsWithId(n) == {k \in 1..Len(teams) : teams[k].id.n = n}
PlayersWithId(n) == {k \in 1..Len(players) : players[k].id.n = n}

\* The players of list whose teamId is the number n, in list order.
RECURSIVE Matching(_, _)
Matching(list, n) ==
  IF list = <<>> THEN <<>>
  ELSE (IF Head(list).teamId.n = n THEN <<Head(list)>> ELSE <<>>)
       \o Matching(Tail(list), n)

NoCallFailed(r) == tcall[r].state # "failed" /\ pcall[r].state # "failed"

RosterReqs == {r \in Reqs : route[r] = "roster"}
ProxyReqs == {r \in Reqs : route[r] \in {"players", "teams", "playerById", "teamById"}}

\* C1: a finished roster request for a team id present in the team store,
\* none of whose calls failed in transport, got 200 with body {team, roster}
\* where team.id is the requested id and roster is the player store's
\* records with that teamId, in store order; with no such record the roster
\* is empty and the status still 200.
C1_RosterOfPresentTeam ==
  \A r \in RosterReqs :
    (pc[r] = "done" /\ TeamsWithId(id[r].n) # {} /\ NoCallFailed(r))
      => /\ resp[r].kind = "reply"
         /\ resp[r].status = 200
         /\ resp[r].body.k = "obj"
         /\ DOMAIN resp[r].body.o = {"team", "roster"}
         /\ resp[r].body.o.team.k = "obj"
         /\ resp[r].body.o.team.o.id = id[r]
         /\ resp[r].body.o.roster = PArr(Matching(players, id[r].n))

\* Two finished roster requests, one with a roster of two players and one
\* with the empty roster of an existing team, both 200.
C1_Witness ==
  \E r, q \in RosterReqs :
    /\ pc[r] = "done" /\ pc[q] = "done"
    /\ resp[r].status = 200 /\ resp[q].status = 200
    /\ TeamsWithId(id[q].n) # {}
    /\ Len(resp[r].body.o.roster.a) = 2
    /\ resp[q].body.o.roster = PArr(<<>>)

\* C2: a roster request for a team id absent from the team store never has
\* a call to the player directory, never gets a 200, and once finished
\* without a transport failure has exactly 404 {error: "Team not found"}.
C2_AbsentTeamNotFound ==
  \A r \in RosterReqs :
    TeamsWithId(id[r].n) = {}
      => /\ pcall[r].state = "none"
         /\ pcount[r] = 0
         /\ resp[r].status # 200
         /\ (pc[r] = "done" /\ NoCallFailed(r))
              => resp[r] = Reply(404, ErrorBody(MsgTeamNotFound))

C2_Witness ==
  \E r \in RosterReqs :
    /\ TeamsWithId(id[r].n) = {}
    /\ pc[r] = "done"
    /\ resp[r].status = 404

\* The directory call a proxy request made.
ProxyCall(r) == IF route[r] \in {"players", "playerById"} THEN pcall[r] ELSE tcall[r]

\* C3: a proxy request answered by its directory returns to the client the
\* directory's status and the directory's body.
C3_PassthroughIdentical ==
  \A r \in ProxyReqs :
    (pc[r] = "done" /\ resp[r].kind = "reply")
      => /\ resp[r].status = ProxyCall(r).status
         /\ resp[r].body = ProxyCall(r).payload

\* C4: a roster request has a call to the player directory (in flight,
\* answered or failed) only when its team call has been answered and the
\* answer was judged a found team and kept as `team`.
C4_TeamBeforePlayers ==
  \A r \in RosterReqs :
    pcall[r].state # "none"
      => /\ tcall[r].state = "replied"
         /\ pc[r] \in {"awaitPlayers", "done"}
         /\ tcall[r].payload.k = "obj"
         /\ "error" \notin DOMAIN tcall[r].payload.o
         /\ team[r] = tcall[r].payload

C4_Witness ==
  \E r \in RosterReqs : pcall[r].state = "pending" /\ tcall[r].state = "replied"

\* What a request of this route and id gets when it runs alone against the
\* stores and no call fails.
AloneResponse(rt, i) ==
  CASE rt = "players" -> Reply(200, PArr(players))
    [] rt = "teams" -> Reply(200, PArr(teams))
    [] rt = "playerById" ->
         IF PlayersWithId(i.n) = {} THEN Reply(200, ErrorBody(MsgPlayerNotFound))
         ELSE Reply(200, PObj(players[CHOOSE k \in PlayersWithId(i.n) : TRUE]))
    [] rt = "teamById" ->
         IF TeamsWithId(i.n) = {} THEN Reply(200, ErrorBody(MsgTeamNotFound))
         ELSE Reply(200, PObj(teams[CHOOSE k \in TeamsWithId(i.n) : TRUE]))
    [] OTHER ->
         IF TeamsWithId(i.n) = {} THEN Reply(404, ErrorBody(MsgTeamNotFound))
         ELSE Reply(200, RosterBody(PObj(teams[CHOOSE k \in TeamsWithId(i.n) : TRUE]),
                                    Matching(players, i.n)))

\* The part of the state that belongs to request r.
Own(r) == <<pc[r], route[r], id[r], tcall[r], pcall[r], tcount[r], pcount[r], team[r], resp[r]>>

C5_ResponseAsAlone ==
  \A r \in Reqs :
    pc[r] = "done"
      => IF NoCallFailed(r) THEN resp[r] = AloneResponse(route[r], id[r])
         ELSE resp[r] = Fault

C5_StepTouchesOneRequest ==
  /\ players' = players
  /\ teams' = teams
  /\ \E r \in Reqs : \A q \in Reqs \ {r} : Own(q)' = Own(q)

\* C5: with requests interleaved in any order, a finished request has the
\* response it would get alone against the same stores (or a fault when one
\* of its own calls failed), and every step changes the state of one
\* request only and leaves the stores alone.
C5_Isolation == []C5_ResponseAsAlone /\ [][C5_StepTouchesOneRequest]_vars

\* A roster request finished with a 200 while another roster request, for
\* another team id, is between its two calls.
C5_Witness ==
  \E r, q \in RosterReqs :
    /\ id[r] # id[q]
    /\ pc[r] = "awaitPlayers"
    /\ pc[q] = "done" /\ resp[q].status = 200

\* The answer of a directory's GET /:id for id i: the stored record with
\* that id when there is one, else 404 with the directory's message.
ByIdAnswer(call, store, hits, i, msg) ==
  call.state = "replied"
    => IF hits = {}
       THEN call.status = 404 /\ call.payload = ErrorBody(msg)
       ELSE /\ call.status = 200
            /\ call.payload.k = "obj"
            /\ call.payload.o.id = i
            /\ \E k \in hits : call.payload.o = store[k]

C6_ByIdAnswers ==
  /\ \A r \in Reqs :
       route[r] = "playerById"
         => ByIdAnswer(pcall[r], players, PlayersWithId(id[r].n), id[r], MsgPlayerNotFound)
  /\ \A r \in Reqs :
       route[r] \in {"teamById", "roster"}
         => ByIdAnswer(tcall[r], teams, TeamsWithId(id[r].n), id[r], MsgTeamNotFound)

\* C6: GET /:id of either directory answers 200 with the stored record of
\* the requested id, or 404 with {error: "Player not found"} / {error:
\* "Team not found"} when no record has it, never a record of another id,
\* and no step changes a store.
C6_GetById ==
  []C6_ByIdAnswers /\ [][players' = players /\ teams' = teams]_vars

\* Both directories have answered a GET /:id, one with a record and one
\* with a 404.
C6_Witness ==
  \E r, q \in Reqs :
    /\ route[r] = "playerById" /\ pcall[r].state = "replied" /\ pcall[r].status = 200
    /\ route[q] = "teamById" /\ tcall[q].state = "replied" /\ tcall[q].status = 404

\* C7: a request issues at most one call to each directory; after a
\* transport failure of its team call a roster request has no player call;
\* a request one of whose calls failed has no reply (no 200, no 404), and
\* once finished it is a fault.
C7_FailurePropagates ==
  \A r \in Reqs :
    /\ tcount[r] <= 1
    /\ pcount[r] <= 1
    /\ tcall[r].state = "failed" => pcall[r].state = "none" /\ pcount[r] = 0
    /\ ~NoCallFailed(r) => resp[r].kind # "reply"
    /\ (~NoCallFailed(r) /\ pc[r] = "done") => resp[r] = Fault

\* A roster request ended as a fault after its player call failed, and a
\* proxy request ended as a fault.
C7_Witness ==
  \E r, q \in Reqs :
    /\ route[r] = "roster" /\ pcall[r].state = "failed" /\ resp[r] = Fault
    /\ q \in ProxyReqs /\ resp[q] = Fault

\* Roster requests whose handler has judged the team directory's answer.
JudgedReqs == {r \in RosterReqs : tcall[r].state = "replied" /\ pc[r] # "awaitTeam"}

HasErrorField(p) == p.k = "obj" /\ "error" \in DOMAIN p.o

\* The payload's error field is there and is a non-empty string, a non-zero
\* number or true.
HasTruthyErrorField(p) ==
  /\ HasErrorField(p)
  /\ LET e == p.o.error
     IN \/ e.k = "str" /\ e.s # <<>>
        \/ e.k = "num" /\ e.n # 0
        \/ e.k = "bool" /\ e.n = 1

\* The request was answered 404 with the gateway's own body and made no
\* player call.
AnsweredNotFound(r) ==
  /\ pc[r] = "done"
  /\ resp[r] = Reply(404, ErrorBody(MsgTeamNotFound))
  /\ pcall[r].state = "none"

\* The payload was kept as `team` and the player call was issued.
KeptAsTeam(r) ==
  /\ team[r] = tcall[r].payload
  /\ pcall[r].state # "none"
  /\ resp[r].status # 404
  /\ pc[r] = "done" => resp[r].body.o.team = tcall[r].payload

\* C8 as stated: the presence of an error field, whatever its value and
\* whatever the status, decides between the 404 and composition.
C8_ErrorFieldPresence ==
  \A r \in JudgedReqs :
    IF HasErrorField(tcall[r].payload) THEN AnsweredNotFound(r) ELSE KeptAsTeam(r)

\* C8 amended: an error field with a truthy value, whatever the status,
\* gives 404 with the gateway's fixed body and no player call; a payload
\* with no error field or with a falsy one (empty string, 0, false, null),
\* whatever the status, is kept as team and composition proceeds.
C8_TruthyErrorField ==
  \A r \in JudgedReqs :
    IF HasTruthyErrorField(tcall[r].payload) THEN AnsweredNotFound(r) ELSE KeptAsTeam(r)

\* An answer with status 200 and an error message of its own was turned
\* into the gateway's 404.
C8_Witness ==
  \E r \in JudgedReqs :
    /\ tcall[r].status = 200
    /\ tcall[r].payload = ErrorBody(<<"b", "o", "o", "m">>)
    /\ AnsweredNotFound(r)

\* s is the decimal numeral of the number n (no sign for n >= 0, no leading
\* zero).
IsNumeralOf(s, n) ==
  LET u == IF n < 0 THEN Tail(s) ELSE s
      m == IF n < 0 THEN -n ELSE n
  IN /\ s # <<>>
     /\ n < 0 => Head(s) = "-"
     /\ u # <<>>
     /\ \A k \in 1..Len(u) : IsDigit(u[k])
     /\ Len(u) > 1 => u[1] # "0"
     /\ DigitsValue(u, 0) = m

\* Two ids have the same string representation.
SameStringForm(a, b) ==
  CASE a.k = "num" /\ b.k = "num" -> a.n = b.n
    [] a.k = "str" /\ b.k = "str" -> a.s = b.s
    [] a.k = "num" /\ b.k = "str" -> IsNumeralOf(b.s, a.n)
    [] a.k = "str" /\ b.k = "num" -> IsNumeralOf(a.s, b.n)
    [] OTHER -> FALSE

\* The elements of list that the roster of id i must hold, in list order.
RECURSIVE SameFormPlayers(_, _)
SameFormPlayers(list, i) ==
  IF list = <<>> THEN <<>>
  ELSE (IF "teamId" \in DOMAIN Head(list) /\ SameStringForm(Head(list).teamId, i)
        THEN <<Head(list)>> ELSE <<>>)
       \o SameFormPlayers(Tail(list), i)

\* Roster requests that finished on a player payload of this kind.
ComposedReqs ==
  {r \in RosterReqs : pc[r] = "done" /\ pcall[r].state = "replied"}

\* C9: the roster holds exactly the listed players whose teamId has the
\* string form of the requested id: number n and numeric string "n" match
\* each other in both directions, any other string form is left out.
C9_FilterByStringForm ==
  \A r \in ComposedReqs :
    pcall[r].payload.k = "arr"
      => resp[r].body.o.roster = PArr(SameFormPlayers(pcall[r].payload.a, id[r]))

\* Requested as the string "1": a player with teamId 1 and one with teamId
\* "1" are in the roster, the third listed player is not.
C9_Witness ==
  \E r \in ComposedReqs :
    /\ id[r] = JsStr(<<"1">>)
    /\ pcall[r].payload = PArr(<<UpP3, UpP2, UpP1>>)
    /\ resp[r].body.o.roster = PArr(<<UpP2, UpP1>>)

\* C10: a roster request whose team was kept and whose player payload is
\* no array ends 200 with {team, roster: []}.
C10_NonSequenceIsEmpty ==
  \A r \in ComposedReqs :
    pcall[r].payload.k # "arr"
      => resp[r] = Reply(200, RosterBody(tcall[r].payload, <<>>))

\* The player directory answered 500 with an error object and the request
\* still ended 200 with an empty roster.
C10_Witness ==
  \E r \in ComposedReqs :
    /\ pcall[r].status = 500
    /\ pcall[r].payload = ErrorBody(MsgPlayerNotFound)
    /\ resp[r].status = 200
    /\ resp[r].body.o.roster = PArr(<<>>)

\* The three ways a roster request ends.
RosterOutcome(r) ==
  \/ resp[r] = Fault
  \/ resp[r] = Reply(404, ErrorBody(MsgTeamNotFound))
  \/ /\ resp[r].kind = "reply"
     /\ resp[r].status = 200
     /\ resp[r].body.k = "obj"
     /\ DOMAIN resp[r].body.o = {"team", "roster"}

RosterFinished(r) == pc[r] = "done" /\ RosterOutcome(r)

\* A response, once sent, is never replaced, and none is sent before the
\* handler is done.
C11_OneResponse ==
  \A r \in Reqs :
    /\ resp[r].kind # "none" => resp'[r] = resp[r] /\ pc[r] = "done"
    /\ pc[r] = "done" => pc'[r] = "done"

\* C11: under fairness of the directories and of the event loop every
\* roster request eventually finishes as a 200 {team, roster}, a 404
\* {error: "Team not found"} or a fault, and its response never changes
\* afterwards.
C11_RosterTerminates ==
  /\ \A r \in Reqs : (route[r] = "roster") ~> RosterFinished(r)
  /\ [][C11_OneResponse]_vars

\* One roster request finished with a 404 and another with a fault after
\* its team was found.
C11_Witness ==
  \E r, q \in RosterReqs :
    /\ RosterFinished(r) /\ resp[r].status = 404
    /\ RosterFinished(q) /\ resp[q] = Fault /\ tcall[q].state = "replied"

====
